---- MODULE Spec2Model ----
(***************************************************************************)
(* IRAH-Premier (src/app.py): the scale normalizers, the weighted          *)
(* composite with its high-risk trigger, and the 20-bed roster kept in     *)
(* st.session_state.patients with the unit summary derived from it.        *)
(*                                                                         *)
(* Python floats are modelled as exact fractions [n |-> num, d |-> den];   *)
(* a value rounded to one decimal is an integer number of tenths.          *)
(* Labels are the source's strings without their diacritics.               *)
(***************************************************************************)
EXTENDS Integers, Sequences, FiniteSets

VARIABLES
    patients,   \* st.session_state.patients: the list of bed records
    op,         \* the button of the last script run: "none", "add", "remove", "clear"
    req,        \* the form values of the last script run
    msg,        \* the message the last handler showed
    summary,    \* the unit summary block the last script run rendered
    scale,      \* single-scale evaluation: the scale under evaluation
    raw,        \* single-scale evaluation: its raw input
    out,        \* single-scale evaluation: the result, or NoResult
    form,       \* patient evaluation: the six scale inputs
    score       \* patient evaluation: the computed result, or NoResult

vars == <<patients, op, req, msg, summary, scale, raw, out, form, score>>
rosterVars == <<patients, op, req, msg, summary>>
scaleVars == <<scale, raw, out>>
evalVars == <<form, score>>

NoResult == [none |-> TRUE]

-----------------------------------------------------------------------------
(* Exact fractions standing for the floats of the source.                  *)

RECURSIVE GCD(_, _)
GCD(a, b) == IF b = 0 THEN a ELSE GCD(b, a % b)

Abs(x) == IF x < 0 THEN -x ELSE x

\* The fraction num/den (den > 0) in lowest terms.
Rat(num, den) ==
    LET g == GCD(Abs(num), den)
    IN  IF num = 0 THEN [n |-> 0, d |-> 1] ELSE [n |-> num \div g, d |-> den \div g]

RatAdd(p, q) == Rat(p.n * q.d + q.n * p.d, p.d * q.d)
RatMul(p, q) == Rat(p.n * q.n, p.d * q.d)
RatLeq(p, q) == p.n * q.d <= q.n * p.d
RatLt(p, q) == p.n * q.d < q.n * p.d

\* round(x, 1) of a non-negative float, as tenths. Python rounds the binary
\* value of the float: away from an exact tie the nearest tenth is certain;
\* at an exact decimal tie (x.x5) the accumulated binary error of the sum
\* decides the side, so both neighbours are possible results.
round1(q) ==
    LET y == 10 * q.n
        fl == y \div q.d
        r == y % q.d
    IN  IF 2 * r < q.d THEN {fl}
        ELSE IF 2 * r > q.d THEN {fl + 1}
        ELSE {fl, fl + 1}

Min(a, b) == IF a <= b THEN a ELSE b
Max(a, b) == IF a >= b THEN a ELSE b

-----------------------------------------------------------------------------
(* Scale catalog.                                                          *)

\* FUGULIN_SCALE: twelve domains, each scored on the levels 1..4.
FUGULIN_DOMAINS == 12
FUGULIN_LEVELS == 1..4

\* CHARLSON_ITEMS: the weights of the nineteen comorbidities, in source order.
CHARLSON_ITEMS == <<1, 1, 1, 1, 1, 1, 1, 1, 1, 1, 2, 2, 2, 2, 2, 2, 3, 6, 6>>

charlson_age_points(age) ==
    IF age >= 80 THEN 4
    ELSE IF age >= 70 THEN 3
    ELSE IF age >= 60 THEN 2
    ELSE IF age >= 50 THEN 1
    ELSE 0

\* fugulin_classification with the overlap at 28 resolved the other way (23-28).
fugulin_classification_28_alta(s) ==
    IF s > 34 THEN "Intensivo"
    ELSE IF 29 <= s /\ s <= 34 THEN "Semi-intensivo"
    ELSE IF 23 <= s /\ s <= 28 THEN "Alta dependencia"
    ELSE IF 18 <= s /\ s <= 22 THEN "Intermediario"
    ELSE IF 12 <= s /\ s <= 17 THEN "Minimo"
    ELSE "Fora da faixa esperada"

fugulin_classification(s) ==
    IF s > 34 THEN "Intensivo"
    ELSE IF 28 <= s /\ s <= 34 THEN "Semi-intensivo"
    ELSE IF 23 <= s /\ s <= 27 THEN "Alta dependencia"
    ELSE IF 18 <= s /\ s <= 22 THEN "Intermediario"
    ELSE IF 12 <= s /\ s <= 17 THEN "Minimo"
    ELSE "Fora da faixa esperada"

-----------------------------------------------------------------------------
(* Normalizers (0-100).                                                    *)

normalize_charlson(charlson_total) ==
    LET c == Max(0, Min(charlson_total, 13))
    IN  Rat(c * 100, 13)

\* normalize_fugulin with the overlap at 28 resolved the other way (23-28 -> 50).
normalize_fugulin_28_alta(fugulin_total) ==
    LET s == fugulin_total
    IN  IF s > 34 THEN Rat(100, 1)
        ELSE IF 29 <= s /\ s <= 34 THEN Rat(75, 1)
        ELSE IF 23 <= s /\ s <= 28 THEN Rat(50, 1)
        ELSE IF 18 <= s /\ s <= 22 THEN Rat(25, 1)
        ELSE Rat(0, 1)

normalize_fugulin(fugulin_total) ==
    LET s == fugulin_total
    IN  IF s > 34 THEN Rat(100, 1)
        ELSE IF 28 <= s /\ s <= 34 THEN Rat(75, 1)
        ELSE IF 23 <= s /\ s <= 27 THEN Rat(50, 1)
        ELSE IF 18 <= s /\ s <= 22 THEN Rat(25, 1)
        ELSE IF 12 <= s /\ s <= 17 THEN Rat(0, 1)
        ELSE Rat(0, 1)

normalize_mrc(mrc_total) ==
    LET m == Max(0, Min(mrc_total, 60))
    IN  Rat((60 - m) * 100, 60)

normalize_asg(asg_label) ==
    LET mapping == [A |-> 0, B |-> 50, C |-> 100]
    IN  IF asg_label \in DOMAIN mapping THEN Rat(mapping[asg_label], 1) ELSE Rat(0, 1)

normalize_fois(fois) ==
    LET mapping == <<100, 90, 80, 60, 40, 20, 0>>
    IN  IF fois \in DOMAIN mapping THEN Rat(mapping[fois], 1) ELSE Rat(0, 1)

normalize_polypharmacy(n_meds) ==
    LET n == n_meds
    IN  IF n <= 4 THEN Rat(0, 1)
        ELSE IF n <= 6 THEN Rat(25, 1)
        ELSE IF n <= 9 THEN Rat(50, 1)
        ELSE IF n <= 12 THEN Rat(75, 1)
        ELSE Rat(100, 1)

\* WEIGHTS with Charlson at 0.25: the weights then sum to 1.05.
WEIGHTS_charlson_025 ==
    [Charlson |-> Rat(1, 4), Fugulin |-> Rat(1, 5), MRC |-> Rat(3, 20),
     ASG |-> Rat(3, 20), FOIS |-> Rat(3, 20), Polifarmacia |-> Rat(3, 20)]

\* WEIGHTS: 0.20 = 1/5 and 0.15 = 3/20.
WEIGHTS ==
    [Charlson |-> Rat(1, 5), Fugulin |-> Rat(1, 5), MRC |-> Rat(3, 20),
     ASG |-> Rat(3, 20), FOIS |-> Rat(3, 20), Polifarmacia |-> Rat(3, 20)]

\* classify without the trigger override.
classify_no_override(score_0_100, trigger_high) ==
    IF score_0_100 >= 670 THEN "Alto"
    ELSE IF score_0_100 >= 340 THEN "Moderado"
    ELSE "Baixo"

\* score_0_100 is a number of tenths: 67 is 670 tenths, 34 is 340.
classify(score_0_100, trigger_high) ==
    IF trigger_high THEN "Alto"
    ELSE IF score_0_100 >= 670 THEN "Alto"
    ELSE IF score_0_100 >= 340 THEN "Moderado"
    ELSE "Baixo"

-----------------------------------------------------------------------------
(* One patient evaluation: the script body from the form to risco.         *)

RECURSIVE SumSeq(_)
SumSeq(s) == IF s = <<>> THEN 0 ELSE Head(s) + SumSeq(Tail(s))

RECURSIVE SumWeights(_)
SumWeights(checked) ==
    IF checked = {} THEN 0
    ELSE LET i == CHOOSE x \in checked : TRUE
         IN  CHARLSON_ITEMS[i] + SumWeights(checked \ {i})

fugulin_total(f) == SumSeq(f.fugulin_scores)
charlson_base(f) == SumWeights(f.charlson_checks)
charlson_age(f) == IF f.use_age_adjust THEN charlson_age_points(f.age) ELSE 0
charlson_total(f) == charlson_base(f) + charlson_age(f)

trigger_high(f) == (f.fois <= 3) \/ (f.poly >= 13) \/ (f.mrc <= 35)

\* The weighted sum before rounding.
irah_sum(f) ==
    RatAdd(RatMul(normalize_charlson(charlson_total(f)), WEIGHTS.Charlson),
    RatAdd(RatMul(normalize_fugulin(fugulin_total(f)), WEIGHTS.Fugulin),
    RatAdd(RatMul(normalize_mrc(f.mrc), WEIGHTS.MRC),
    RatAdd(RatMul(normalize_asg(f.asg), WEIGHTS.ASG),
    RatAdd(RatMul(normalize_fois(f.fois), WEIGHTS.FOIS),
           RatMul(normalize_polypharmacy(f.poly), WEIGHTS.Polifarmacia))))))

\* irah = round(float(irah), 1), in tenths.
irah(f) == round1(irah_sum(f))

risco(f, irah_value) == classify(irah_value, trigger_high(f))

-----------------------------------------------------------------------------
(* Single-scale evaluation: one normalizer applied to one raw value, the   *)
(* raw values running past both ends of every scale's domain.              *)

RawBelow == 3
RawAbove == 62
RawValues == (0 - RawBelow)..RawAbove
Scales == {"charlson", "fugulin", "mrc", "fois", "poly"}

ScalesInit ==
    /\ scale \in Scales
    /\ raw \in RawValues
    /\ out = NoResult

NormalizeCharlson ==
    /\ scale = "charlson" /\ out = NoResult
    /\ out' = [norm |-> normalize_charlson(raw)]
    /\ UNCHANGED <<scale, raw, rosterVars, evalVars>>

NormalizeFugulin ==
    /\ scale = "fugulin" /\ out = NoResult
    /\ out' = [norm |-> normalize_fugulin(raw), cat |-> fugulin_classification(raw)]
    /\ UNCHANGED <<scale, raw, rosterVars, evalVars>>

NormalizeMrc ==
    /\ scale = "mrc" /\ out = NoResult
    /\ out' = [norm |-> normalize_mrc(raw)]
    /\ UNCHANGED <<scale, raw, rosterVars, evalVars>>

NormalizeFois ==
    /\ scale = "fois" /\ out = NoResult
    /\ out' = [norm |-> normalize_fois(raw)]
    /\ UNCHANGED <<scale, raw, rosterVars, evalVars>>

NormalizePolypharmacy ==
    /\ scale = "poly" /\ out = NoResult
    /\ out' = [norm |-> normalize_polypharmacy(raw)]
    /\ UNCHANGED <<scale, raw, rosterVars, evalVars>>

ScalesNext ==
    \/ NormalizeCharlson
    \/ NormalizeFugulin
    \/ NormalizeMrc
    \/ NormalizeFois
    \/ NormalizePolypharmacy

ScalesIdle == scale = "none" /\ raw = 0 /\ out = NoResult
EvalIdle == form = NoResult /\ score = NoResult
RosterIdle ==
    /\ patients = <<>>
    /\ op = "none"
    /\ req = NoResult
    /\ msg = "none"
    /\ summary = NoResult

InitScales == ScalesInit /\ RosterIdle /\ EvalIdle

SpecScales == InitScales /\ [][ScalesNext]_vars

-----------------------------------------------------------------------------
(* Patient evaluation over the values the form's widgets offer.            *)

\* The Fugulin selections with the given total: the first domains raised to
\* level 4, the next one to what is left, the others at level 1.
FugulinScores(total) ==
    [i \in 1..FUGULIN_DOMAINS |->
        1 + Min(3, Max(0, (total - FUGULIN_DOMAINS) - 3 * (i - 1)))]

EvalFugulinTotals == {12, 17, 18, 22, 23, 27, 28, 34, 35, 48}
EvalCharlson ==
    { [checks |-> {}, age |-> 0, adjust |-> FALSE],
      [checks |-> {1}, age |-> 80, adjust |-> FALSE],
      [checks |-> {1, 2}, age |-> 65, adjust |-> TRUE],
      [checks |-> {18}, age |-> 49, adjust |-> TRUE],
      [checks |-> {18, 19}, age |-> 50, adjust |-> TRUE],
      [checks |-> {17, 18, 19}, age |-> 80, adjust |-> TRUE] }
EvalMrc == {0, 1, 35, 36, 59, 60}
EvalAsg == {"A", "B", "C"}
EvalFois == 1..7
EvalPoly == {0, 4, 5, 9, 12, 13, 50}

Form(fug, ch, mrc, asg, fois, poly) ==
    [fugulin_scores |-> FugulinScores(fug),
     charlson_checks |-> ch.checks, age |-> ch.age, use_age_adjust |-> ch.adjust,
     mrc |-> mrc, asg |-> asg, fois |-> fois, poly |-> poly]

EvalInit ==
    /\ form \in { Form(fug, ch, mrc, asg, fois, poly) :
                    fug \in EvalFugulinTotals, ch \in EvalCharlson, mrc \in EvalMrc,
                    asg \in EvalAsg, fois \in EvalFois, poly \in EvalPoly }
    /\ score = NoResult

\* Lines 466-485 on the current form.
Calculate ==
    /\ score = NoResult
    /\ \E irah_value \in irah(form) :
          score' = [charlson_norm |-> normalize_charlson(charlson_total(form)),
                    fugulin_norm |-> normalize_fugulin(fugulin_total(form)),
                    mrc_norm |-> normalize_mrc(form.mrc),
                    asg_norm |-> normalize_asg(form.asg),
                    fois_norm |-> normalize_fois(form.fois),
                    poly_norm |-> normalize_polypharmacy(form.poly),
                    trigger_high |-> trigger_high(form),
                    irah |-> irah_value,
                    risco |-> risco(form, irah_value)]
    /\ UNCHANGED <<form, rosterVars, scaleVars>>

EvalNext == Calculate

InitEval == EvalInit /\ RosterIdle /\ ScalesIdle

SpecEval == InitEval /\ [][EvalNext]_vars

-----------------------------------------------------------------------------
(* The clinic: the add / remove / clear handlers on the 20-bed list and    *)
(* the table and unit summary every script run renders from it.            *)

\* st.number_input("Leito (1 a 20)", min_value=1, max_value=20).
LEITO_MIN == 1
LEITO_MAX == 20

\* The beds the user works with: the first LowBeds beds and the last bed.
LowBeds == 1
Leitos == (LEITO_MIN..LowBeds) \cup {LEITO_MAX}

\* Texts typed into the initials field, as sequences of characters.
TypedInitials ==
    { <<>>, <<"j", "a", "s">>, <<" ", "M", "C", "O", " ">> }

\* str.strip() on the characters used here.
RECURSIVE lstrip(_)
lstrip(t) == IF t # <<>> /\ Head(t) = " " THEN lstrip(Tail(t)) ELSE t

RECURSIVE rstrip(_)
rstrip(t) ==
    IF t # <<>> /\ t[Len(t)] = " " THEN rstrip(SubSeq(t, 1, Len(t) - 1)) ELSE t

strip(t) == rstrip(lstrip(t))

\* str.upper() on the characters used here.
upper(t) ==
    [i \in 1..Len(t) |->
        CASE t[i] = "j" -> "J"
          [] t[i] = "a" -> "A"
          [] t[i] = "s" -> "S"
          [] OTHER -> t[i]]

\* The forms submitted to the clinic: one with composite 33.9 and no trigger
\* (Baixo), one with composite 34.0 that fires the trigger (Alto).
RosterForms ==
    { Form(12, [checks |-> {1, 2, 3}, age |-> 40, adjust |-> FALSE], 60, "C", 6, 11),
      Form(12, [checks |-> {}, age |-> 0, adjust |-> FALSE], 20, "A", 4, 13) }

\* The dict appended by the add handler.
PatientRecord(leito, iniciais, f, irah_value) ==
    [Leito |-> leito,
     Iniciais |-> iniciais,
     IRAH_Premier |-> irah_value,
     Risco |-> risco(f, irah_value),
     Gatilho_Alto |-> IF trigger_high(f) THEN "SIM" ELSE "",
     Fugulin_total |-> fugulin_total(f),
     Fugulin_classificacao |-> fugulin_classification(fugulin_total(f)),
     Fugulin_detalhes |-> f.fugulin_scores,
     Charlson_total |-> charlson_total(f),
     Charlson_base |-> charlson_base(f),
     Charlson_idade_pts |-> charlson_age(f),
     Charlson_detalhes |-> f.charlson_checks,
     MRC |-> f.mrc,
     ASG |-> f.asg,
     FOIS |-> f.fois,
     Polifarmacia |-> f.poly]

\* WithoutLeito that filters nothing: the add handler then only appends.
WithoutLeito_keeps_all(pats, leito) == pats

\* WithoutLeito with the comparison inverted (== for !=).
WithoutLeito_inverted(pats, leito) == SelectSeq(pats, LAMBDA p : p.Leito = leito)

\* [p for p in patients if int(p.get("Leito", -1)) != int(leito)]
WithoutLeito(pats, leito) == SelectSeq(pats, LAMBDA p : p.Leito # leito)

\* sort_values_Leito that leaves the rows in list order (the sort forgotten).
sort_values_none(rows) == rows

\* DataFrame.sort_values("Leito"): repeatedly take the row of the lowest bed.
RECURSIVE sort_values_Leito(_)
sort_values_Leito(rows) ==
    IF rows = <<>> THEN <<>>
    ELSE LET i == CHOOSE k \in 1..Len(rows) :
                    \A j \in 1..Len(rows) :
                        rows[k].Leito < rows[j].Leito
                        \/ (rows[k].Leito = rows[j].Leito /\ k <= j)
         IN  <<rows[i]>> \o
             sort_values_Leito(SubSeq(rows, 1, i - 1) \o SubSeq(rows, i + 1, Len(rows)))

\* The values of a column in ascending order.
RECURSIVE SortedValues(_)
SortedValues(xs) ==
    IF xs = <<>> THEN <<>>
    ELSE LET i == CHOOSE k \in 1..Len(xs) : \A j \in 1..Len(xs) : xs[k] <= xs[j]
         IN  <<xs[i]>> \o SortedValues(SubSeq(xs, 1, i - 1) \o SubSeq(xs, i + 1, Len(xs)))

Column(rows, name) == [i \in 1..Len(rows) |-> rows[i][name]]

CountRisco(rows, r) == Cardinality({i \in 1..Len(rows) : rows[i].Risco = r})

\* df["IRAH_Premier"].mean(), the composites being tenths.
mean(rows) == Rat(SumSeq(Column(rows, "IRAH_Premier")), 10 * Len(rows))

\* df["IRAH_Premier"].median().
median(rows) ==
    LET xs == SortedValues(Column(rows, "IRAH_Premier"))
        n == Len(xs)
    IN  IF n % 2 = 1 THEN Rat(xs[(n + 1) \div 2], 10)
        ELSE Rat(xs[n \div 2] + xs[n \div 2 + 1], 20)

\* complexidade_global with <= for < at both thresholds.
complexidade_global_leq(media) ==
    IF media <= 340 THEN "Baixa" ELSE IF media <= 670 THEN "Moderada" ELSE "Alta"

\* media is a number of tenths.
complexidade_global(media) ==
    IF media < 340 THEN "Baixa" ELSE IF media < 670 THEN "Moderada" ELSE "Alta"

\* The twelve columns of the PDF table.
PdfCols ==
    {"Leito", "Iniciais", "IRAH_Premier", "Risco", "Gatilho_Alto", "Fugulin_total",
     "Fugulin_classificacao", "Charlson_total", "MRC", "ASG", "FOIS", "Polifarmacia"}

\* build_pdf: the rows of the patient table.
build_pdf(df) ==
    LET sorted == sort_values_Leito(df)
    IN  [i \in 1..Len(sorted) |-> [c \in PdfCols |-> sorted[i][c]]]

\* Rendered without the guard on an empty list: the summary block is always
\* rendered, with the occupancy counted over the rows there are.
Rendered_unguarded(pats, media, mediana) ==
    LET df == sort_values_Leito(pats)
    IN  [vazio |-> pats = <<>>,
         df |-> df,
         total |-> Len(df),
         baixo |-> CountRisco(df, "Baixo"),
         moderado |-> CountRisco(df, "Moderado"),
         alto |-> CountRisco(df, "Alto"),
         media |-> media,
         mediana |-> mediana,
         carga_total |-> SumSeq(Column(df, "IRAH_Premier")),
         ocupacao |-> <<Len(df), LEITO_MAX>>,
         complexidade_global |-> complexidade_global(media),
         pdf |-> build_pdf(df)]

\* What a script run renders below the buttons: the table, the unit summary
\* and the exports, or the notice that no patient was added yet.
Rendered(pats, media, mediana) ==
    IF pats # <<>>
    THEN LET df == sort_values_Leito(pats)
         IN  [vazio |-> FALSE,
              df |-> df,
              total |-> Len(df),
              baixo |-> CountRisco(df, "Baixo"),
              moderado |-> CountRisco(df, "Moderado"),
              alto |-> CountRisco(df, "Alto"),
              media |-> media,
              mediana |-> mediana,
              carga_total |-> SumSeq(Column(df, "IRAH_Premier")),
              ocupacao |-> <<Len(df), LEITO_MAX>>,
              complexidade_global |-> complexidade_global(media),
              pdf |-> build_pdf(df)]
    ELSE [vazio |-> TRUE, info |-> "Ainda nao ha pacientes adicionados"]

\* The possible renderings of a list: media and mediana are rounded floats.
Renderings(pats) ==
    IF pats = <<>> THEN {Rendered(pats, 0, 0)}
    ELSE { Rendered(pats, media, mediana) :
             media \in round1(mean(pats)), mediana \in round1(median(pats)) }

RosterInit ==
    /\ patients = <<>>
    /\ op = "none"
    /\ req = NoResult
    /\ msg = "none"
    /\ summary \in Renderings(<<>>)

\* Add with the bed's record dropped before the initials are looked at.
Add_filters_first(leito, text, f) ==
    LET iniciais == upper(strip(text))
        kept == WithoutLeito(patients, leito)
    IN  /\ op' = "add"
        /\ req' = [leito |-> leito, iniciais |-> iniciais, form |-> f]
        /\ IF iniciais = <<>>
           THEN /\ msg' = "error: informe as iniciais do paciente"
                /\ patients' = kept
           ELSE /\ \E irah_value \in irah(f) :
                      patients' = Append(kept, PatientRecord(leito, iniciais, f, irah_value))
                /\ msg' = "success: leito atualizado"
        /\ summary' \in Renderings(patients')
        /\ UNCHANGED <<scaleVars, evalVars>>

\* A script run with the add button pressed.
Add(leito, text, f) ==
    LET iniciais == upper(strip(text))
    IN  /\ op' = "add"
        /\ req' = [leito |-> leito, iniciais |-> iniciais, form |-> f]
        /\ IF iniciais = <<>>
           THEN /\ msg' = "error: informe as iniciais do paciente"
                /\ patients' = patients
           ELSE /\ \E irah_value \in irah(f) :
                      patients' = Append(WithoutLeito(patients, leito),
                                         PatientRecord(leito, iniciais, f, irah_value))
                /\ msg' = "success: leito atualizado"
        /\ summary' \in Renderings(patients')
        /\ UNCHANGED <<scaleVars, evalVars>>

\* Remove that reports success whether or not a record was deleted.
Remove_always_success(leito) ==
    /\ op' = "remove"
    /\ req' = [leito |-> leito]
    /\ patients' = WithoutLeito(patients, leito)
    /\ msg' = "success: leito removido"
    /\ summary' \in Renderings(patients')
    /\ UNCHANGED <<scaleVars, evalVars>>

\* A script run with the remove button pressed.
Remove(leito) ==
    LET before == Len(patients)
        kept == WithoutLeito(patients, leito)
        after == Len(kept)
    IN  /\ op' = "remove"
        /\ req' = [leito |-> leito]
        /\ patients' = kept
        /\ msg' = IF after < before THEN "success: leito removido"
                  ELSE "info: nao havia paciente cadastrado no leito"
        /\ summary' \in Renderings(patients')
        /\ UNCHANGED <<scaleVars, evalVars>>

\* A script run with the clear button pressed.
Clear ==
    /\ op' = "clear"
    /\ req' = NoResult
    /\ patients' = <<>>
    /\ msg' = "success: lista da clinica limpa"
    /\ summary' \in Renderings(patients')
    /\ UNCHANGED <<scaleVars, evalVars>>

AddAny == \E leito \in Leitos, text \in TypedInitials, f \in RosterForms : Add(leito, text, f)
RemoveAny == \E leito \in Leitos : Remove(leito)

Next ==
    \/ AddAny
    \/ RemoveAny
    \/ Clear

Init == RosterInit /\ ScalesIdle /\ EvalIdle

Spec == Init /\ [][Next]_vars

-----------------------------------------------------------------------------
(* Properties of the clinic (Spec).                                        *)

Records(pats) == {pats[i] : i \in 1..Len(pats)}
RecordsAt(pats, leito) == {p \in Records(pats) : p.Leito = leito}
Occupied(pats, leito) == RecordsAt(pats, leito) # {}

\* C1: after any sequence of add/update, remove and clear from the empty
\* list, the list holds 0 to 20 records, every record's bed is in 1..20 and
\* no two records share a bed.
C1_RosterInvariant ==
    /\ Len(patients) \in 0..20
    /\ \A i \in 1..Len(patients) : patients[i].Leito \in 1..20
    /\ \A i, j \in 1..Len(patients) : patients[i].Leito = patients[j].Leito => i = j

C1_Witness ==
    /\ op = "remove"
    /\ msg = "success: leito removido"
    /\ Len(patients) = 1
    /\ patients[1].Leito = LEITO_MAX

\* The record carries what was submitted in the form.
CarriesRequest(p, r) ==
    /\ p.Leito = r.leito
    /\ p.Iniciais = r.iniciais
    /\ p.Fugulin_detalhes = r.form.fugulin_scores
    /\ p.Fugulin_total = SumSeq(r.form.fugulin_scores)
    /\ p.Charlson_detalhes = r.form.charlson_checks
    /\ p.MRC = r.form.mrc
    /\ p.ASG = r.form.asg
    /\ p.FOIS = r.form.fois
    /\ p.Polifarmacia = r.form.poly
    /\ p.IRAH_Premier \in irah(r.form)

\* C2: an accepted add/update on an occupied bed replaces the record: there is
\* then exactly one record at that bed, it carries the values just submitted,
\* and the records of all other beds are unchanged.
C2_UpsertReplaces ==
    [][ (op' = "add" /\ msg' = "success: leito atualizado"
            /\ Occupied(patients, req'.leito))
        => /\ Cardinality({i \in 1..Len(patients') : patients'[i].Leito = req'.leito}) = 1
           /\ \A p \in RecordsAt(patients', req'.leito) : CarriesRequest(p, req')
           /\ \A b \in (LEITO_MIN..LEITO_MAX) \ {req'.leito} :
                 RecordsAt(patients', b) = RecordsAt(patients, b) ]_vars

\* Bed 1 holds MCO after JAS was there, beside an untouched bed 20.
C2_Witness ==
    /\ op = "add"
    /\ msg = "success: leito atualizado"
    /\ Len(patients) = 2
    /\ patients[1].Leito = LEITO_MAX
    /\ patients[2].Leito = LEITO_MIN
    /\ patients[2].Iniciais = <<"M", "C", "O">>

\* C3: remove on a bed without a record reports not-found as information and
\* leaves the list as it was; remove on an occupied bed deletes that bed's
\* record and no other.
C3_Remove ==
    [][ op' = "remove"
        => IF Occupied(patients, req'.leito)
           THEN /\ msg' = "success: leito removido"
                /\ Records(patients') = Records(patients) \ RecordsAt(patients, req'.leito)
                /\ Len(patients') = Len(patients) - 1
           ELSE /\ msg' = "info: nao havia paciente cadastrado no leito"
                /\ patients' = patients ]_vars

C3_Witness ==
    /\ op = "remove"
    /\ msg = "info: nao havia paciente cadastrado no leito"
    /\ Len(patients) = 1

\* The tier thresholds without trigger, on an exact value.
TierOfExact(q) ==
    IF RatLeq(Rat(67, 1), q) THEN "Alto"
    ELSE IF RatLeq(Rat(34, 1), q) THEN "Moderado"
    ELSE "Baixo"

\* The summary's wording of a tier.
GlobalLabel(tier) ==
    CASE tier = "Alto" -> "Alta"
      [] tier = "Moderado" -> "Moderada"
      [] tier = "Baixo" -> "Baixa"

\* C6 as claimed: for every non-empty list the global complexity tier is the
\* no-trigger threshold function applied to the arithmetic mean of the
\* composites.
C6_TierOfMean ==
    patients # <<>> =>
        summary.complexidade_global = GlobalLabel(TierOfExact(mean(patients)))

\* C6 as amended: for every non-empty list the global complexity tier is the
\* no-trigger threshold function applied to the arithmetic mean of the
\* composites rounded to one decimal (the mean the summary displays).
C6_TierOfRoundedMean ==
    patients # <<>> =>
        /\ summary.media \in round1(mean(patients))
        /\ summary.complexidade_global = GlobalLabel(classify(summary.media, FALSE))

\* Composites 33.9 and 34.0: the mean 33.95 is displayed as 34.0.
C6_Witness ==
    /\ Len(patients) = 2
    /\ RatLt(mean(patients), Rat(34, 1))
    /\ summary.media = 340
    /\ summary.complexidade_global = "Moderada"

\* The fields of the unit summary block.
SummaryFields ==
    {"total", "baixo", "moderado", "alto", "media", "mediana", "carga_total",
     "ocupacao", "complexidade_global"}

\* C11 as claimed: when the list is empty (initially, after clear, after
\* removing the last record) the unit summary reports occupancy 0/20 and
\* signals no data for mean and median, reporting no number for them.
C11_EmptySummaryReported ==
    patients = <<>> =>
        /\ "ocupacao" \in DOMAIN summary
        /\ summary.ocupacao = <<0, LEITO_MAX>>
        /\ "media" \notin DOMAIN summary
        /\ "mediana" \notin DOMAIN summary

\* C11 as amended: when the list is empty (initially, after clear, after
\* removing the last record) the script run renders no unit summary at all,
\* neither an occupancy nor a mean or median, and shows instead the notice
\* that no patient was added yet; when the list is not empty the occupancy
\* is the number of records out of 20.
C11_EmptyShowsNotice ==
    IF patients = <<>>
    THEN /\ DOMAIN summary \cap SummaryFields = {}
         /\ "info" \in DOMAIN summary
         /\ summary.info = "Ainda nao ha pacientes adicionados"
    ELSE /\ SummaryFields \subseteq DOMAIN summary
         /\ summary.ocupacao = <<Len(patients), 20>>

\* The last record was just removed.
C11_Witness ==
    /\ patients = <<>>
    /\ op = "remove"
    /\ msg = "success: leito removido"
    /\ summary.info = "Ainda nao ha pacientes adicionados"

StrictlyAscending(rows) ==
    \A i, j \in 1..Len(rows) : i < j => rows[i].Leito < rows[j].Leito

\* C12: after any sequence and order of add/update, remove and clear, the
\* listing used for display and export (the table, and the PDF rows) holds
\* the list's records in strictly ascending bed order, whatever the order in
\* which the beds were inserted or updated.
C12_ListingAscending ==
    patients # <<>> =>
        /\ StrictlyAscending(summary.df)
        /\ Records(summary.df) = Records(patients)
        /\ Len(summary.df) = Len(patients)
        /\ StrictlyAscending(summary.pdf)
        /\ Len(summary.pdf) = Len(patients)
        /\ \A i \in 1..Len(summary.pdf) :
              summary.pdf[i].Iniciais = summary.df[i].Iniciais

\* The last bed was inserted before the first one.
C12_Witness ==
    /\ Len(patients) = 2
    /\ patients[1].Leito = LEITO_MAX
    /\ patients[2].Leito = LEITO_MIN
    /\ summary.df[1].Leito = LEITO_MIN
    /\ summary.df[2].Leito = LEITO_MAX

\* C13: an add/update request with empty initials is rejected with an error
\* and leaves the list unchanged: no record is added, and a record already at
\* the requested bed is neither removed nor replaced.
C13_EmptyInitialsRejected ==
    [][ (op' = "add" /\ req'.iniciais = <<>>)
        => /\ msg' = "error: informe as iniciais do paciente"
           /\ patients' = patients ]_vars

\* The request named an occupied bed, whose record is still there.
C13_Witness ==
    /\ op = "add"
    /\ req.iniciais = <<>>
    /\ msg = "error: informe as iniciais do paciente"
    /\ \E p \in RecordsAt(patients, req.leito) : p.Iniciais # <<>>

-----------------------------------------------------------------------------
(* Properties of the single-scale evaluation (SpecScales).                 *)

FugulinEvaluated == scale = "fugulin" /\ out # NoResult

\* The canonical Fugulin bands as the specification states them.
CanonicalBand(total) ==
    IF total > 34 THEN 100
    ELSE IF total >= 28 THEN 75
    ELSE IF total >= 23 THEN 50
    ELSE IF total >= 18 THEN 25
    ELSE 0

\* C7: normalize_fugulin maps every integer total by the canonical bands
\* [12,17]->0, [18,22]->25, [23,27]->50, [28,34]->75, >34->100 and every total
\* below 12 to 0 (28 is in the 75 band), and it never decreases from one total
\* to the next.
C7_FugulinBands ==
    FugulinEvaluated =>
        /\ out.norm = Rat(CanonicalBand(raw), 1)
        /\ (raw = 28 => out.norm = Rat(75, 1))
        /\ (raw < 12 => out.norm = Rat(0, 1))
        /\ RatLeq(normalize_fugulin(raw - 1), out.norm)

C7_Witness == FugulinEvaluated /\ raw = 28 /\ out.norm = Rat(75, 1)

FiveTiers == {"Minimo", "Intermediario", "Alta dependencia", "Semi-intensivo", "Intensivo"}
TierValue(tier) ==
    CASE tier = "Minimo" -> 0
      [] tier = "Intermediario" -> 25
      [] tier = "Alta dependencia" -> 50
      [] tier = "Semi-intensivo" -> 75
      [] tier = "Intensivo" -> 100

LabelMatchesNorm == out.cat \in FiveTiers /\ out.norm = Rat(TierValue(out.cat), 1)

\* C8 as claimed: for every total the label is one of the five named tiers and
\* corresponds to the normalized value 0, 25, 50, 75, 100.
C8_EveryTotal == FugulinEvaluated => LabelMatchesNorm

\* C8 as amended: for every total of at least 12 (the totals the twelve
\* domains can produce are 12..48) the label is one of the five named tiers and
\* corresponds to the normalized value; a total below 12 is labelled
\* "Fora da faixa esperada" and normalized to 0.
C8_TotalsFrom12 ==
    FugulinEvaluated =>
        IF raw >= FUGULIN_DOMAINS THEN LabelMatchesNorm
        ELSE out.cat = "Fora da faixa esperada" /\ out.norm = Rat(0, 1)

C8_Witness == FugulinEvaluated /\ raw = 28 /\ out.cat = "Semi-intensivo"

Clamp(x, lo, hi) == Max(lo, Min(x, hi))

\* C9: for any input, the normalized sub-score of Charlson, MRC, FOIS and
\* polypharmacy equals the sub-score of the input clamped to its domain
\* (Charlson [0,13], MRC [0,60], FOIS [1,7], polypharmacy >= 0).
C9_ClampedBeforeUse ==
    out # NoResult =>
        /\ (scale = "charlson" => out.norm = normalize_charlson(Clamp(raw, 0, 13)))
        /\ (scale = "mrc" => out.norm = normalize_mrc(Clamp(raw, 0, 60)))
        /\ (scale = "fois" => out.norm = normalize_fois(Clamp(raw, 1, 7)))
        /\ (scale = "poly" => out.norm = normalize_polypharmacy(Max(raw, 0)))

-----------------------------------------------------------------------------
(* Properties of the patient evaluation (SpecEval).                        *)

Evaluated == score # NoResult

\* C5: the trigger flag is true iff FOIS <= 3 or polypharmacy >= 13 or
\* MRC <= 35; whenever it is true the tier is "Alto" whatever the composite,
\* and the composite is still the rounded weighted sum.
C5_TriggerForcesHigh ==
    Evaluated =>
        /\ score.trigger_high <=> (form.fois <= 3 \/ form.poly >= 13 \/ form.mrc <= 35)
        /\ (score.trigger_high => score.risco = "Alto")
        /\ score.irah \in round1(irah_sum(form))

C5_Witness == Evaluated /\ score.trigger_high /\ score.irah < 340 /\ score.risco = "Alto"

\* The weighted sum of the six sub-scores with the weights the claim states.
ClaimedSum ==
    RatAdd(RatMul(score.charlson_norm, Rat(20, 100)),
    RatAdd(RatMul(score.fugulin_norm, Rat(20, 100)),
    RatAdd(RatMul(score.mrc_norm, Rat(15, 100)),
    RatAdd(RatMul(score.asg_norm, Rat(15, 100)),
    RatAdd(RatMul(score.fois_norm, Rat(15, 100)),
           RatMul(score.poly_norm, Rat(15, 100)))))))

\* C10: the composite, the weighted sum of the six sub-scores with weights
\* 0.20, 0.20, 0.15, 0.15, 0.15, 0.15 rounded to one decimal, lies in [0,100].
C10_CompositeInRange ==
    Evaluated =>
        /\ score.irah \in round1(ClaimedSum)
        /\ 0 <= score.irah /\ score.irah <= 1000

C10_Witness == Evaluated /\ score.irah = 1000

====
